---- MODULE Spec2Model ----
(***************************************************************************)
(* Model of mcp_server.py: the tools registered on the FastMCP server and  *)
(* the CATIA V5 automation objects they drive.  The application (its open  *)
(* documents, the active document, the sketches of each body) is the       *)
(* environment; every tool is one synchronous request that acquires the    *)
(* application, makes its calls and returns a value or raises.  Every call *)
(* a request makes on the automation layer is recorded in `calls`.         *)
(***************************************************************************)
EXTENDS Integers, Sequences, FiniteSets, TLC

VARIABLES
    available,   \* CATIA_AVAILABLE: the import of win32com/pythoncom succeeded
    docs,        \* catia.Documents: the open documents, index 1..Count
    active,      \* index in docs of catia.ActiveDocument, 0 when there is none
    nSketch,     \* number of sketches created so far (serial of the latest)
    coInit,      \* pythoncom.CoInitialize calls performed
    coUninit,    \* pythoncom.CoUninitialize calls attempted
    result,      \* outcome of the latest request
    calls        \* automation calls made by the latest request, in order

vars == <<available, docs, active, nSketch, coInit, coUninit, result, calls>>

----------------------------------------------------------------------------
\* Bounds of the model.

MaxDocs == 2        \* open documents
MaxSketches == 2    \* sketches created in one run
MaxInit == 4        \* requests that reach CoInitialize in one run

\* Document names, as sequences of characters: without a dot, with one and
\* with two.
DocNames == {<<"a">>, <<"a", ".", "b">>, <<"c", ".", "a", ".", "b">>}
BodyCounts == {1, 2}               \* bodies of an opened part
Names == {"N1", "N2"}              \* the name argument of the create tools
Paths == {"p1"}                    \* file_path arguments
PlaneKeys == {"xy", "yz", "zx", "ab"}
Kinds == {"Part", "Product", "Drawing"}
Amounts == {10}                    \* length / depth arguments

----------------------------------------------------------------------------
\* Values.

\* One automation call: the member used, its string argument, the index or
\* sketch serial it addresses, its numeric argument, and whether it returned
\* (ok) or raised.
Call(m) == [m |-> m, arg |-> "", idx |-> 0, num |-> 0, ok |-> TRUE]
CallA(m, a) == [m |-> m, arg |-> a, idx |-> 0, num |-> 0, ok |-> TRUE]
CallI(m, i) == [m |-> m, arg |-> "", idx |-> i, num |-> 0, ok |-> TRUE]
CallF(m, i, x) == [m |-> m, arg |-> "", idx |-> i, num |-> x, ok |-> TRUE]

\* The calls of a request whose last call raised.
Raises(trace) == [trace EXCEPT ![Len(trace)].ok = FALSE]

PyWin32Msg == "pywin32 is required for CATIA automation. Install with: pip install pywin32"
ConnectMsg == "Failed to connect to CATIA V5"
ComError == "com_error"
KeyErrorMsg == "KeyError"
UnknownToolMsg == "Unknown tool"

Ok(op, arg, val) == [op |-> op, arg |-> arg, status |-> "ok", msg |-> "", val |-> val]
Err(op, arg, msg) == [op |-> op, arg |-> arg, status |-> "error", msg |-> msg, val |-> <<>>]
NoResult == [op |-> "none", arg |-> "", status |-> "none", msg |-> "", val |-> <<>>]

\* A new document as the application creates it: kind, the name the
\* application gives it, and for a part its bodies (each the list of its sketches' serials, in creation order).
NewDoc(kind, nm, nb) ==
    [name |-> nm, kind |-> kind,
     bodies |-> IF kind = "Part" THEN [b \in 1..nb |-> <<>>] ELSE <<>>]

\* The tools registered with @app.tool.
RegisteredTools ==
    {"get_catia_info", "list_documents", "get_active_document", "create_part",
     "create_product", "create_drawing", "open_document", "save_document",
     "close_document", "create_sketch", "create_pad", "create_pocket",
     "get_part_bodies", "update_part", "execute_macro"}

----------------------------------------------------------------------------
\* get_catia_application

\* (faulty variant: the availability test left out)
DependencyMissing_NoCheck == FALSE
\* if not CATIA_AVAILABLE
DependencyMissing == ~available

Connect == <<Call("CoInitialize"), CallA("Dispatch", "CATIA.Application")>>

\* The dependency is absent: raise before any call.
Unavailable(op, arg) ==
    /\ DependencyMissing
    /\ result' = Err(op, arg, PyWin32Msg)
    /\ calls' = <<>>
    /\ UNCHANGED <<available, docs, active, nSketch, coInit, coUninit>>

\* CoInitialize done, Dispatch raised: re-raised as the connection failure.
ConnectFails(op, arg) ==
    /\ ~DependencyMissing
    /\ coInit < MaxInit
    /\ coInit' = coInit + 1
    /\ result' = Err(op, arg, ConnectMsg)
    /\ calls' = Raises(Connect)
    /\ UNCHANGED <<available, docs, active, nSketch, coUninit>>

\* CoInitialize and Dispatch succeeded; the caller goes on with the handle.
\* No tool calls release_com_object, so nothing is uninitialized.
Connected ==
    /\ ~DependencyMissing
    /\ coInit < MaxInit
    /\ coInit' = coInit + 1
    /\ UNCHANGED <<available, coUninit>>

\* release_com_object(obj): defined by the module, called by no tool.
release_com_object(obj) ==
    IF obj THEN coUninit + 1 ELSE coUninit

Return(r, trace) ==
    /\ result' = r
    /\ calls' = Connect \o trace

\* The request ends because its last call raised com_error.
Throw(op, arg, trace) ==
    /\ result' = Err(op, arg, ComError)
    /\ calls' = Connect \o Raises(trace)

AppUnchanged == UNCHANGED <<docs, active, nSketch>>

----------------------------------------------------------------------------
Init ==
    /\ available \in BOOLEAN
    /\ docs = <<>>
    /\ active = 0
    /\ nSketch = 0
    /\ coInit = 0
    /\ coUninit = 0
    /\ result = NoResult
    /\ calls = <<>>

----------------------------------------------------------------------------
\* get_catia_info
get_catia_info ==
    LET op == "get_catia_info" IN
    \/ Unavailable(op, "")
    \/ ConnectFails(op, "")
    \/ /\ Connected
       /\ Return(Ok(op, "", <<"version", "visible", "caption", "full_name">>),
                 <<Call("SystemConfiguration"), Call("Version"), Call("Visible"),
                   Call("Caption"), Call("FullName")>>)
       /\ AppUnchanged

----------------------------------------------------------------------------
\* list_documents

\* s.split("."): the pieces of s between its dots.
RECURSIVE Split(_)
Split(s) ==
    IF \A i \in 1..Len(s) : s[i] # "."
    THEN <<s>>
    ELSE LET i == CHOOSE j \in 1..Len(s) :
                      s[j] = "." /\ \A k \in 1..(j - 1) : s[k] # "."
         IN <<SubSeq(s, 1, i - 1)>> \o Split(SubSeq(s, i + 1, Len(s)))

\* doc.Name.split(".")[-1]
\* (faulty variant: the first piece instead of the last)
TypeOf_First(name) == Split(name)[1]
TypeOf(name) == LET parts == Split(name) IN parts[Len(parts)]

DocEntry(doc) == [name |-> doc.name, full_name |-> doc.name, type |-> TypeOf(doc.name)]

\* The calls of loop iterations i..n of list_documents.
RECURSIVE ListReads(_, _)
ListReads(i, n) ==
    IF i > n THEN <<>>
    ELSE <<CallI("Documents.Item", i), Call("Name"), Call("FullName"), Call("Name")>>
         \o ListReads(i + 1, n)

list_documents ==
    LET op == "list_documents" IN
    \/ Unavailable(op, "")
    \/ ConnectFails(op, "")
    \/ /\ Connected
       /\ Return(Ok(op, "", [i \in 1..Len(docs) |-> DocEntry(docs[i])]),
                 <<Call("Documents"), Call("Count")>> \o ListReads(1, Len(docs)))
       /\ AppUnchanged

----------------------------------------------------------------------------
\* get_active_document
NoDocumentsMsg == "No documents are currently open"

\* (faulty variant: the Count test left out)
NoDocuments_Never == FALSE
\* catia.Documents.Count == 0
NoDocuments == Len(docs) = 0

get_active_document ==
    LET op == "get_active_document" IN
    \/ Unavailable(op, "")
    \/ ConnectFails(op, "")
    \/ /\ Connected
       /\ AppUnchanged
       /\ IF NoDocuments
          THEN Return(Ok(op, "", NoDocumentsMsg), <<Call("Documents"), Call("Count")>>)
          ELSE IF active = 0
          THEN Throw(op, "",
                      <<Call("Documents"), Call("Count"), Call("ActiveDocument")>>)
          ELSE Return(Ok(op, "", [name |-> docs[active].name,
                                  full_name |-> docs[active].name]),
                      <<Call("Documents"), Call("Count"), Call("ActiveDocument"),
                        Call("Name"), Call("FullName"), Call("Path"), Call("Saved")>>)

----------------------------------------------------------------------------
\* create_part, create_product, create_drawing

\* documents.Add(kind) succeeded: the new document is appended and active.
Added(kind, nm) ==
    /\ Len(docs) < MaxDocs
    /\ active' = Len(docs) + 1
    /\ UNCHANGED nSketch

create_part ==
    LET op == "create_part" IN
    \E name \in Names :
    \/ Unavailable(op, name)
    \/ ConnectFails(op, name)
    \/ /\ Connected
       /\ \/ /\ AppUnchanged     \* documents.Add raises
             /\ Throw(op, name,
                       <<Call("Documents"), CallA("Documents.Add", "Part")>>)
          \/ \E nm \in DocNames, setNameRaises \in BOOLEAN :
             LET added == Append(docs, NewDoc("Part", nm, 1))
                 trace == <<Call("Documents"), CallA("Documents.Add", "Part"),
                            Call("Part"), Call("PartDocument"), Call("Part"),
                            CallA("set_Name", name)>>
             IN /\ Added("Part", nm)
                /\ IF setNameRaises
                   THEN /\ docs' = added
                        /\ Throw(op, name, trace)
                   ELSE /\ docs' = added
                        /\ Return(Ok(op, name, <<"Created new Part document: ", name>>),
                                  trace)

create_product ==
    LET op == "create_product" IN
    \E name \in Names :
    \/ Unavailable(op, name)
    \/ ConnectFails(op, name)
    \/ /\ Connected
       /\ \/ /\ AppUnchanged     \* documents.Add raises
             /\ Throw(op, name,
                       <<Call("Documents"), CallA("Documents.Add", "Product")>>)
          \/ \E nm \in DocNames, setNameRaises \in BOOLEAN :
             LET added == Append(docs, NewDoc("Product", nm, 0))
                 trace == <<Call("Documents"), CallA("Documents.Add", "Product"),
                            Call("Product"), CallA("set_Name", name)>>
             IN /\ Added("Product", nm)
                /\ IF setNameRaises
                   THEN /\ docs' = added
                        /\ Throw(op, name, trace)
                   ELSE /\ docs' = added
                        /\ Return(Ok(op, name, <<"Created new Product document: ", name>>),
                                  trace)

create_drawing ==
    LET op == "create_drawing" IN
    \E name \in Names :
    \/ Unavailable(op, name)
    \/ ConnectFails(op, name)
    \/ /\ Connected
       /\ \/ /\ AppUnchanged     \* documents.Add raises
             /\ Throw(op, name,
                       <<Call("Documents"), CallA("Documents.Add", "Drawing")>>)
          \/ \E nm \in DocNames :
             /\ Added("Drawing", nm)
             /\ docs' = Append(docs, NewDoc("Drawing", nm, 0))
             /\ Return(Ok(op, name, <<"Created new Drawing document: ", name>>),
                       <<Call("Documents"), CallA("Documents.Add", "Drawing")>>)

----------------------------------------------------------------------------
\* open_document
open_document ==
    LET op == "open_document" IN
    \E file_path \in Paths :
    \/ Unavailable(op, file_path)
    \/ ConnectFails(op, file_path)
    \/ /\ Connected
       /\ \/ /\ AppUnchanged     \* Documents.Open raises
             /\ Throw(op, file_path,
                       <<Call("Documents"), CallA("Documents.Open", file_path)>>)
          \/ \E kind \in Kinds, nm \in DocNames, nb \in BodyCounts :
             /\ kind # "Part" => nb = 1
             /\ Added(kind, nm)
             /\ docs' = Append(docs, NewDoc(kind, nm, nb))
             /\ Return(Ok(op, file_path, <<"Opened document: ", nm>>),
                       <<Call("Documents"), CallA("Documents.Open", file_path),
                         Call("Name")>>)

----------------------------------------------------------------------------
\* save_document; file_path "" stands for the default None
save_document ==
    LET op == "save_document" IN
    \E file_path \in Paths \cup {""} :
    \/ Unavailable(op, file_path)
    \/ ConnectFails(op, file_path)
    \/ /\ Connected
       /\ AppUnchanged
       /\ IF active = 0
          THEN Throw(op, file_path, <<Call("ActiveDocument")>>)
          ELSE \E raises \in BOOLEAN :
               IF file_path # ""
               THEN IF raises
                    THEN Throw(op, file_path,
                                <<Call("ActiveDocument"), CallA("SaveAs", file_path)>>)
                    ELSE Return(Ok(op, file_path, <<"Document saved to: ", file_path>>),
                                <<Call("ActiveDocument"), CallA("SaveAs", file_path)>>)
               ELSE IF raises
                    THEN Throw(op, file_path,
                                <<Call("ActiveDocument"), Call("Save")>>)
                    ELSE Return(Ok(op, file_path, <<"Document saved: ", docs[active].name>>),
                                <<Call("ActiveDocument"), Call("Save"), Call("Name")>>)

----------------------------------------------------------------------------
\* close_document

\* (faulty variant: names compared by their extension only)
NameMatches_Type(doc_name, document_name) == TypeOf(doc_name) = TypeOf(document_name)
\* doc.Name == document_name
NameMatches(doc_name, document_name) == doc_name = document_name

\* Index of the first open document whose name matches, 0 when none does.
FirstMatch(document_name) ==
    LET hits == {i \in 1..Len(docs) : NameMatches(docs[i].name, document_name)}
    IN IF hits = {} THEN 0 ELSE CHOOSE i \in hits : \A j \in hits : i <= j

\* The calls of loop iterations i..n of close_document.
RECURSIVE ScanReads(_, _)
ScanReads(i, n) ==
    IF i > n THEN <<>>
    ELSE <<CallI("Documents.Item", i), Call("Name")>> \o ScanReads(i + 1, n)

Remove(s, i) == SubSeq(s, 1, i - 1) \o SubSeq(s, i + 1, Len(s))

NotFoundMsg == "Document not found: "

close_document ==
    LET op == "close_document" IN
    \E document_name \in DocNames :
    \/ Unavailable(op, document_name)
    \/ ConnectFails(op, document_name)
    \/ /\ Connected
       /\ LET k == FirstMatch(document_name) IN
          IF k = 0
          THEN /\ AppUnchanged
               /\ Return(Ok(op, document_name, <<NotFoundMsg, document_name>>),
                         <<Call("Documents"), Call("Count")>> \o ScanReads(1, Len(docs)))
          ELSE LET trace == <<Call("Documents"), Call("Count")>> \o ScanReads(1, k)
                             \o <<CallI("Close", k)>>
               IN \/ /\ AppUnchanged     \* doc.Close raises
                     /\ Throw(op, document_name, trace)
                  \/ /\ docs' = Remove(docs, k)
                     /\ active' \in IF Len(docs) = 1 THEN {0} ELSE 1..(Len(docs) - 1)
                     /\ UNCHANGED nSketch
                     /\ Return(Ok(op, document_name, <<"Closed document: ", document_name>>),
                               trace)

----------------------------------------------------------------------------
\* create_sketch

FirstBody == 1

\* plane_map and the lookup plane_map[plane]
plane_map == ("xy" :> "PlaneXY") @@ ("yz" :> "PlaneYZ") @@ ("zx" :> "PlaneZX")

\* (faulty variant: an unknown key falls back to the xy plane)
ResolvePlane_Default(plane) ==
    IF plane \in DOMAIN plane_map
    THEN [found |-> TRUE, ref |-> plane_map[plane]]
    ELSE [found |-> TRUE, ref |-> "PlaneXY"]
ResolvePlane(plane) ==
    IF plane \in DOMAIN plane_map
    THEN [found |-> TRUE, ref |-> plane_map[plane]]
    ELSE [found |-> FALSE, ref |-> ""]

\* catia.ActiveDocument.Part is reachable: there is an active document and it
\* is a part document.
ActivePart == active # 0 /\ docs[active].kind = "Part"

\* The calls up to where ActiveDocument or .Part raises.
NoPartTrace == IF active = 0 THEN <<Call("ActiveDocument")>>
               ELSE <<Call("ActiveDocument"), Call("Part")>>

SketchNav ==
    <<Call("ActiveDocument"), Call("Part"), Call("Bodies"),
      CallI("Bodies.Item", FirstBody), Call("Sketches"),
      Call("OriginElements"), Call("PlaneXY"),
      Call("OriginElements"), Call("PlaneYZ"),
      Call("OriginElements"), Call("PlaneZX")>>

AddSketch(ds, d, b, sk) == [ds EXCEPT ![d].bodies[b] = Append(@, sk)]

create_sketch ==
    LET op == "create_sketch" IN
    \E plane \in PlaneKeys :
    \/ Unavailable(op, plane)
    \/ ConnectFails(op, plane)
    \/ /\ Connected
       /\ IF ~ActivePart
          THEN AppUnchanged /\ Throw(op, plane, NoPartTrace)
          ELSE LET r == ResolvePlane(plane) IN
               IF ~r.found
               THEN AppUnchanged /\ Return(Err(op, plane, KeyErrorMsg), SketchNav)
               ELSE LET trace == SketchNav \o <<CallA("Sketches.Add", r.ref)>> IN
                    \/ /\ AppUnchanged     \* sketches.Add raises
                       /\ Throw(op, plane, trace)
                    \/ /\ nSketch < MaxSketches
                       /\ nSketch' = nSketch + 1
                       /\ docs' = AddSketch(docs, active, FirstBody, nSketch + 1)
                       /\ UNCHANGED active
                       /\ Return(Ok(op, plane, <<"Created sketch on ", plane, " plane">>),
                                 trace)

----------------------------------------------------------------------------
\* create_pad, create_pocket

\* sketches.Item(sketches.Count)
\* (faulty variant: the first sketch instead of the last)
LastSketchIndex_First(sketches) == IF Len(sketches) = 0 THEN 0 ELSE 1
LastSketchIndex(sketches) == Len(sketches)

FeatureNav ==
    <<Call("ActiveDocument"), Call("Part"), Call("ShapeFactory"), Call("Bodies"),
      CallI("Bodies.Item", FirstBody), Call("Sketches"), Call("Count")>>

\* The body shared by create_pad (method AddNewPad) and create_pocket
\* (method AddNewPocket).
Feature(op, method, amount, text) ==
    \/ Unavailable(op, amount)
    \/ ConnectFails(op, amount)
    \/ /\ Connected
       /\ AppUnchanged
       /\ IF ~ActivePart
          THEN Throw(op, amount, NoPartTrace)
          ELSE LET sketches == docs[active].bodies[FirstBody]
                   k == LastSketchIndex(sketches)
                   select == FeatureNav \o <<CallI("Sketches.Item", k)>>
               IN IF k \notin 1..Len(sketches)
                  THEN Throw(op, amount, select)
                  ELSE LET add == select \o <<CallF(method, sketches[k], amount)>> IN
                       \/ Throw(op, amount, add)    \* AddNew... raises
                       \/ Throw(op, amount, add \o <<Call("Update")>>)
                       \/ Return(Ok(op, amount, <<text, amount, " mm">>),
                                 add \o <<Call("Update")>>)

create_pad ==
    \E length \in Amounts :
        Feature("create_pad", "AddNewPad", length, "Created pad with length ")

create_pocket ==
    \E depth \in Amounts :
        Feature("create_pocket", "AddNewPocket", depth, "Created pocket with depth ")

----------------------------------------------------------------------------
\* get_part_bodies

\* The calls of loop iterations i..n of get_part_bodies.
RECURSIVE BodyReads(_, _)
BodyReads(i, n) ==
    IF i > n THEN <<>>
    ELSE <<CallI("Bodies.Item", i), Call("Name")>> \o BodyReads(i + 1, n)

get_part_bodies ==
    LET op == "get_part_bodies" IN
    \/ Unavailable(op, "")
    \/ ConnectFails(op, "")
    \/ /\ Connected
       /\ AppUnchanged
       /\ IF ~ActivePart
          THEN Throw(op, "", NoPartTrace)
          ELSE LET n == Len(docs[active].bodies) IN
               Return(Ok(op, "", [i \in 1..n |-> [name |-> i]]),
                      <<Call("ActiveDocument"), Call("Part"), Call("Bodies"),
                        Call("Count")>> \o BodyReads(1, n))

----------------------------------------------------------------------------
\* update_part
update_part ==
    LET op == "update_part" IN
    \/ Unavailable(op, "")
    \/ ConnectFails(op, "")
    \/ /\ Connected
       /\ AppUnchanged
       /\ IF ~ActivePart
          THEN Throw(op, "", NoPartTrace)
          ELSE \/ Throw(op, "",
                         <<Call("ActiveDocument"), Call("Part"), Call("Update")>>)
               \/ Return(Ok(op, "", "Part updated successfully"),
                         <<Call("ActiveDocument"), Call("Part"), Call("Update")>>)

----------------------------------------------------------------------------
\* execute_macro
Macros == {<<"m.catvbs", "Module1", "main">>}

execute_macro ==
    LET op == "execute_macro" IN
    \E macro \in Macros :
    \/ Unavailable(op, macro)
    \/ ConnectFails(op, macro)
    \/ /\ Connected
       /\ AppUnchanged
       /\ \/ Throw(op, macro,
                    <<Call("SystemService"), CallA("ExecuteScript", macro[3])>>)
          \/ Return(Ok(op, macro, <<"Executed macro: ", macro[3]>>),
                    <<Call("SystemService"), CallA("ExecuteScript", macro[3])>>)

----------------------------------------------------------------------------
\* A request for a tool name that no @app.tool registration provides: the
\* server has no function to run, so no code of this module executes.
RectangleArgs ==
    [x : {0}, y : {0}, width : {10}, height : {4}, centered : BOOLEAN]

unregistered_tool ==
    \E tool \in {"create_rectangle"} \ RegisteredTools, args \in RectangleArgs :
    /\ result' = Err(tool, args, UnknownToolMsg)
    /\ calls' = <<>>
    /\ UNCHANGED <<available, docs, active, nSketch, coInit, coUninit>>

----------------------------------------------------------------------------
Next ==
    \/ get_catia_info
    \/ list_documents
    \/ get_active_document
    \/ create_part
    \/ create_product
    \/ create_drawing
    \/ open_document
    \/ save_document
    \/ close_document
    \/ create_sketch
    \/ create_pad
    \/ create_pocket
    \/ get_part_bodies
    \/ update_part
    \/ execute_macro
    \/ unregistered_tool

Spec == Init /\ [][Next]_vars

----------------------------------------------------------------------------
\* Vocabulary of the properties.

\* Positions in cs of the calls of member m, and their number.
CallsOf(cs, m) == {i \in 1..Len(cs) : cs[i].m = m}
NumCalls(cs, m) == Cardinality(CallsOf(cs, m))

\* The latest request got its application handle (Dispatch returned).
Acquired ==
    /\ result.op \in RegisteredTools
    /\ ~(result.status = "error" /\ result.msg \in {PyWin32Msg, ConnectMsg})

CreateTools == {"create_part", "create_product", "create_drawing"}
KindOf(op) == CASE op = "create_part" -> "Part"
                [] op = "create_product" -> "Product"
                [] op = "create_drawing" -> "Drawing"

\* The text v, a sequence of pieces, contains the piece n.
Contains(v, n) == \E i \in 1..Len(v) : v[i] = n

\* C1: when CATIA_AVAILABLE is false, every registered tool fails with the
\* fixed 'pywin32 is required' message and makes no call at all on the
\* automation layer: no CoInitialize, no Dispatch, no property read, no method.
C1_AbsentDependencyFailsFast ==
    (~available /\ result.op \in RegisteredTools) =>
        /\ result.status = "error"
        /\ result.msg = PyWin32Msg
        /\ calls = <<>>
        /\ coInit = 0
        /\ docs = <<>>

C1_Witness ==
    /\ ~available
    /\ result.op = "create_sketch"
    /\ result.msg = PyWin32Msg

\* C2: for every kind k and name N, the create tool for k on a reachable
\* application whose Documents.Add returns gives back a confirmation text
\* containing N, after exactly one Documents.Add call, whose argument is k.
C2_CreateConfirms ==
    (result.op \in CreateTools /\ Acquired
        /\ \E i \in CallsOf(calls, "Documents.Add") : calls[i].ok) =>
        /\ NumCalls(calls, "Documents.Add") = 1
        /\ \A i \in CallsOf(calls, "Documents.Add") : calls[i].arg = KindOf(result.op)
        /\ result.status = "ok"
        /\ Contains(result.val, result.arg)

\* C3: name assignment is best-effort: when Documents.Add returned and the
\* name-setting call raised, create_part and create_product still return
\* their confirmation text and raise nothing.
C3_NameAssignmentBestEffort ==
    (result.op \in {"create_part", "create_product"}
        /\ (\E i \in CallsOf(calls, "Documents.Add") : calls[i].ok)
        /\ (\E i \in CallsOf(calls, "set_Name") : ~calls[i].ok)) =>
        /\ result.status = "ok"
        /\ Contains(result.val, result.arg)

\* C4: every request releases the binding it acquired before it ends: after
\* any sequence of completed requests the CoInitialize calls performed equal
\* the CoUninitialize calls attempted.
C4_BindingsReleased == coInit = coUninit

\* C5: close_document(document_name), when no open document has exactly that
\* name (also when none is open), returns the not-found text naming
\* document_name, makes no Close call and leaves the open documents as they were.
C5_CloseNotFound ==
    [][(/\ result'.op = "close_document"
        /\ coInit' = coInit + 1
        /\ result'.msg # ConnectMsg
        /\ \A i \in 1..Len(docs) : docs[i].name # result'.arg) =>
           /\ result'.status = "ok"
           /\ result'.val = <<NotFoundMsg, result'.arg>>
           /\ NumCalls(calls', "Close") = 0
           /\ docs' = docs
           /\ active' = active]_vars

C5_Witness ==
    /\ result.op = "close_document"
    /\ result.status = "ok"
    /\ result.val[1] = NotFoundMsg
    /\ Len(docs) = 2

\* C6: get_active_document with no open document returns the 'No documents
\* are currently open' text and never reads ActiveDocument; ActiveDocument is
\* read only after Documents.Count was read and was not zero.
C6_NoActiveDocumentRead ==
    result.op = "get_active_document" =>
        /\ (Acquired /\ Len(docs) = 0) =>
              /\ result.status = "ok"
              /\ result.val = NoDocumentsMsg
              /\ NumCalls(calls, "ActiveDocument") = 0
        /\ \A i \in CallsOf(calls, "ActiveDocument") :
              /\ Len(docs) # 0
              /\ \E j \in 1..(i - 1) : calls[j].m = "Count"

C6_Witness ==
    /\ result.op = "get_active_document"
    /\ result.status = "ok"
    /\ Len(docs) = 0
    /\ NumCalls(calls, "Count") = 1

\* C7: on an active part, create_sketch(plane) adds the sketch on exactly the
\* origin plane its key names (xy PlaneXY, yz PlaneYZ, zx PlaneZX), in the
\* sketches of body 1; with any other key it fails with the key-lookup error,
\* uses no plane by default and makes no Sketches.Add call.
C7_ExpectedPlane(key) ==
    CASE key = "xy" -> "PlaneXY"
      [] key = "yz" -> "PlaneYZ"
      [] key = "zx" -> "PlaneZX"

C7_SketchPlane ==
    result.op = "create_sketch" =>
        /\ result.status = "ok" =>
              /\ result.arg \in {"xy", "yz", "zx"}
              /\ NumCalls(calls, "Sketches.Add") = 1
              /\ \A i \in CallsOf(calls, "Sketches.Add") :
                    /\ calls[i].arg = C7_ExpectedPlane(result.arg)
                    /\ \E j \in 1..(i - 1) :
                          calls[j].m = "Bodies.Item" /\ calls[j].idx = 1
              /\ ActivePart
              /\ docs[active].bodies[1] # <<>>
              /\ docs[active].bodies[1][Len(docs[active].bodies[1])] = nSketch
        /\ result.arg \notin {"xy", "yz", "zx"} =>
              /\ result.status = "error"
              /\ NumCalls(calls, "Sketches.Add") = 0
              /\ (Acquired /\ ActivePart) => result.msg = KeyErrorMsg

C7_Witness ==
    /\ result.op = "create_sketch"
    /\ result.arg = "ab"
    /\ result.msg = KeyErrorMsg
    /\ nSketch = 1

\* C8: list_documents returns one entry per open document, in index order
\* 1..Documents.Count, the type of each being what follows the last '.' of
\* the document's Name, and it makes no mutating call on the application.
C8_IsSuffixAfterLastDot(t, name) ==
    /\ \A i \in 1..Len(t) : t[i] # "."
    /\ \/ name = t
       \/ \E k \in 1..Len(name) :
             name[k] = "." /\ SubSeq(name, k + 1, Len(name)) = t

C8_ReadOnlyMembers ==
    {"CoInitialize", "Dispatch", "Documents", "Count", "Documents.Item", "Name",
     "FullName"}

C8_IsItem(c) == c.m = "Documents.Item"

\* Further names the type derivation is checked on: every name of up to three
\* characters over a letter and the dot (leading, trailing and only dots).
C8_MoreNames == UNION {[1..n -> {"a", "."}] : n \in 1..3}

C8_ListDocuments ==
    (result.op = "list_documents" /\ Acquired) =>
        /\ result.status = "ok"
        /\ Len(result.val) = Len(docs)
        /\ \A i \in 1..Len(docs) :
              /\ result.val[i].name = docs[i].name
              /\ C8_IsSuffixAfterLastDot(result.val[i].type, docs[i].name)
        /\ SelectSeq(calls, C8_IsItem)
              = [i \in 1..Len(docs) |-> CallI("Documents.Item", i)]
        /\ \A i \in 1..Len(calls) : calls[i].m \in C8_ReadOnlyMembers
        /\ \A nm \in C8_MoreNames : C8_IsSuffixAfterLastDot(TypeOf(nm), nm)

C8_Witness ==
    /\ result.op = "list_documents"
    /\ Len(result.val) = 2
    /\ result.val[1].name = <<"c", ".", "a", ".", "b">>
    /\ result.val[1].type = <<"b">>
    /\ result.val[2].type = <<"a">>

\* C9: the server exposes create_rectangle(x, y, width, height, centered),
\* which returns the corners bottom_left and top_right (centered: x - width/2,
\* y - height/2 and x + width/2, y + height/2; otherwise x, y and x + width,
\* y + height) and inserts exactly 4 line segments into the sketch between
\* opening and closing the edit session.
C9_CreateRectangle ==
    result.op = "create_rectangle" =>
        LET a == result.arg
            hw == a.width \div 2
            hh == a.height \div 2
        IN /\ result.status = "ok"
           /\ result.val.bottom_left =
                 IF a.centered THEN <<a.x - hw, a.y - hh>> ELSE <<a.x, a.y>>
           /\ result.val.top_right =
                 IF a.centered THEN <<a.x + hw, a.y + hh>>
                 ELSE <<a.x + a.width, a.y + a.height>>
           /\ NumCalls(calls, "CreateLine") = 4
           /\ NumCalls(calls, "OpenEdition") = 1
           /\ NumCalls(calls, "CloseEdition") = 1
           /\ \A i \in CallsOf(calls, "CreateLine") :
                 /\ \E j \in 1..(i - 1) : calls[j].m = "OpenEdition"
                 /\ \E j \in (i + 1)..Len(calls) : calls[j].m = "CloseEdition"

\* C10: create_pad and create_pocket build the feature from the sketch at
\* index Sketches.Count of body 1 of the active part, the sketch created
\* latest among that body's; Part.Update is called exactly once, after the
\* feature was added, and not at all when selecting the sketch or adding the
\* feature fails, as it does when the first body has no sketch.
C10_Method(op) == IF op = "create_pad" THEN "AddNewPad" ELSE "AddNewPocket"
C10_Other(op) == IF op = "create_pad" THEN "AddNewPocket" ELSE "AddNewPad"

C10_FeatureOnLatestSketch ==
    result.op \in {"create_pad", "create_pocket"} =>
        LET feats == CallsOf(calls, C10_Method(result.op))
            upds == CallsOf(calls, "Update")
        IN /\ NumCalls(calls, C10_Other(result.op)) = 0
           /\ Cardinality(feats) <= 1
           /\ \A i \in feats :
                 /\ ActivePart
                 /\ \A k \in 1..Len(docs[active].bodies[1]) :
                       docs[active].bodies[1][k] <= calls[i].idx
                 /\ \E k \in 1..Len(docs[active].bodies[1]) :
                       docs[active].bodies[1][k] = calls[i].idx
                 /\ calls[i].num = result.arg
                 /\ calls[i - 1].m = "Sketches.Item"
                 /\ calls[i - 1].idx = Len(docs[active].bodies[1])
                 /\ \E j \in 1..(i - 1) :
                       calls[j].m = "Bodies.Item" /\ calls[j].idx = 1
           /\ Cardinality(upds) = IF \E i \in feats : calls[i].ok THEN 1 ELSE 0
           /\ \A u \in upds : \E i \in feats : i < u
           /\ result.status = "ok" => (feats # {} /\ upds # {})
           /\ (Acquired /\ ActivePart /\ docs[active].bodies[1] = <<>>) =>
                 /\ result.status = "error"
                 /\ feats = {}
                 /\ upds = {}

C10_Witness ==
    /\ result.op = "create_pad"
    /\ result.status = "ok"
    /\ ActivePart
    /\ Len(docs[active].bodies[1]) = 2
    /\ \E i \in CallsOf(calls, "AddNewPad") : calls[i].idx = 2
====
